---- MODULE Spec2Model ----
(***************************************************************************)
(* Model of the authentication / authorization core of demarthology-api:   *)
(* the permission classes and the authorization gate of                    *)
(* app/utils/authorize.py, the token codec of app/utils/jwt.py and the     *)
(* bearer-token session provider of app/services/token_session_provider.py,*)
(* the current-user service of app/services/current_user_service.py over   *)
(* app/utils/jwt_token.py, the login, register, forgot-password,           *)
(* reset-password and logout use cases of app/use_cases over the user and  *)
(* role stores, the forgot-password service, the error handlers, the       *)
(* authentication middleware and the question use cases.                   *)
(***************************************************************************)
EXTENDS Integers, Sequences, FiniteSets, TLC

VARIABLES
    now,      \* the UTC clock, in minutes (datetime.now(timezone.utc))
    issued,   \* the last token-issuing call: its time, argument and token
    call,     \* the last completed call: operation, arguments, outcome
    users,    \* the "users" collection, in insertion order
    roles,    \* the "roles" collection: the names of the stored roles
    regs,     \* the register requests in flight: position and locals of each
    EXEMPT_PATHS, \* the class attribute AuthMiddleware.EXEMPT_PATHS
    middlewares,  \* the AuthMiddleware instances: the exempt_paths each was given
    questions,    \* the "questions" collection, in insertion order
    details       \* the question-detail requests: position and locals of each

vars == <<now, issued, call, users, roles, regs, EXEMPT_PATHS, middlewares,
          questions, details>>

(***************************************************************************)
(* Python values.  A value carries its type, so that == between an int and *)
(* a str is false while str() of both may agree.                           *)
(***************************************************************************)
StrV(s) == [t |-> "str", s |-> s]
IntV(n) == [t |-> "int", n |-> n]
None == [t |-> "None"]

\* str(x)
Str(x) ==
    CASE x.t = "int" -> ToString(x.n)
      [] x.t = "str" -> x.s
      [] OTHER -> "None"

\* What a call does: return a value, or raise HTTPException(status_code, detail),
\* or raise another Python exception.
Return(v) == [kind |-> "return", value |-> v]
HTTPException(status_code, detail) ==
    [kind |-> "raise", status_code |-> status_code, detail |-> detail]
PyError(exc) == [kind |-> "error", exc |-> exc]

HTTP_400_BAD_REQUEST == 400
HTTP_401_UNAUTHORIZED == 401
HTTP_403_FORBIDDEN == 403

(***************************************************************************)
(* Users, resources, permissions                                           *)
(***************************************************************************)
MaxId == 2

\* Identifiers occur as ints and as their decimal strings.
IdValues == {IntV(i) : i \in 1..MaxId} \cup {StrV(ToString(i)) : i \in 1..MaxId}
Emails == {"a@x.org", "b@x.org"}
EmailValues == {StrV(e) : e \in Emails}
KnownRoles == {"user", "admin", "moderator"}
Roles == KnownRoles \cup {"guest"}

\* app.models.user.User, as far as the permissions read it.
Users == [id : IdValues, email : EmailValues, role : Roles]

\* A resource is an object with any subset of the ownership attributes.
OwnerFields == {"user_id", "email", "owner_id"}
FieldValues(f) == IF f = "email" THEN EmailValues ELSE IdValues
Resources ==
    UNION {{r \in [S -> IdValues \cup EmailValues] :
                \A f \in S : r[f] \in FieldValues(f)} : S \in SUBSET OwnerFields}

hasattr(obj, name) == name \in DOMAIN obj

\* BasicContext / CanEditRoleContext / AdminOnlyContext / ResourceOwnerContext:
\* all four hold a user and an object and hand them back unchanged.
BasicContext(user, obj) == [user |-> user, obj |-> obj]
get_user(context) == context.user
get_obj(context) == context.obj

Permissions ==
    {[kind |-> "CanEditRole"], [kind |-> "AdminPermission"],
     [kind |-> "UserPermission"], [kind |-> "SelfOrAdminPermission"]}
    \cup {[kind |-> "RolePermission", required_role |-> r] : r \in Roles}
    \cup {[kind |-> "AnyRolePermission", allowed_roles |-> S] : S \in SUBSET Roles}

CanEditRole_authorize(self, context) ==
    LET user == get_user(context) IN
    IF user = None THEN Return(FALSE)
    ELSE Return(user.role = "admin")

AdminPermission_authorize(self, context) ==
    LET user == get_user(context) IN
    IF user = None THEN Return(FALSE)
    ELSE Return(user.role = "admin")

\* Mutant: any authenticated user passes, whatever the role.
UserPermission_authorize_AnyRole(self, context) ==
    LET user == get_user(context) IN
    IF user = None THEN Return(FALSE)
    ELSE Return(TRUE)

UserPermission_authorize(self, context) ==
    LET user == get_user(context) IN
    IF user = None THEN Return(FALSE)
    ELSE Return(user.role \in {"user", "admin", "moderator"})

\* Mutant: the role is read before the user is checked for None.
RolePermission_authorize_NoNoneCheck(self, context) ==
    LET user == get_user(context) IN
    IF user = None THEN PyError("AttributeError")
    ELSE Return(user.role = self.required_role)

RolePermission_authorize(self, context) ==
    LET user == get_user(context) IN
    IF user = None THEN Return(FALSE)
    ELSE Return(user.role = self.required_role)

\* Mutant: an empty list of allowed roles is taken as "no restriction".
AnyRolePermission_authorize_EmptyAllows(self, context) ==
    LET user == get_user(context) IN
    IF user = None THEN Return(FALSE)
    ELSE Return(self.allowed_roles = {} \/ user.role \in self.allowed_roles)

AnyRolePermission_authorize(self, context) ==
    LET user == get_user(context) IN
    IF user = None THEN Return(FALSE)
    ELSE Return(user.role \in self.allowed_roles)

\* Mutant: the ownership fields are tried one after the other until one matches.
SelfOrAdminPermission_authorize_AnyField(self, context) ==
    LET user == get_user(context)
        resource == get_obj(context)
    IN  IF user = None THEN Return(FALSE)
        ELSE IF user.role = "admin" THEN Return(TRUE)
        ELSE IF resource = None THEN Return(TRUE)
        ELSE Return(\/ /\ hasattr(resource, "user_id")
                       /\ Str(resource.user_id) = Str(user.id)
                    \/ /\ hasattr(resource, "email")
                       /\ resource.email = user.email
                    \/ /\ hasattr(resource, "owner_id")
                       /\ Str(resource.owner_id) = Str(user.id))

SelfOrAdminPermission_authorize(self, context) ==
    LET user == get_user(context)
        resource == get_obj(context)
    IN  IF user = None THEN Return(FALSE)
        ELSE IF user.role = "admin" THEN Return(TRUE)
        ELSE IF resource = None THEN Return(TRUE)
        ELSE IF hasattr(resource, "user_id")
            THEN Return(Str(resource.user_id) = Str(user.id))
        ELSE IF hasattr(resource, "email")
            THEN Return(resource.email = user.email)
        ELSE IF hasattr(resource, "owner_id")
            THEN Return(Str(resource.owner_id) = Str(user.id))
        ELSE Return(FALSE)

\* permission.authorize(context): dispatch on the permission's class.
Permission_authorize(permission, context) ==
    CASE permission.kind = "CanEditRole" -> CanEditRole_authorize(permission, context)
      [] permission.kind = "AdminPermission" -> AdminPermission_authorize(permission, context)
      [] permission.kind = "UserPermission" -> UserPermission_authorize(permission, context)
      [] permission.kind = "RolePermission" -> RolePermission_authorize(permission, context)
      [] permission.kind = "AnyRolePermission" -> AnyRolePermission_authorize(permission, context)
      [] OTHER -> SelfOrAdminPermission_authorize(permission, context)

\* Mutant: the denial names the permission that was required.
authorize_LeaksPermission(permission, context) ==
    LET granted == Permission_authorize(permission, context) IN
    IF granted.kind # "return" THEN granted
    ELSE IF ~granted.value
        THEN HTTPException(HTTP_403_FORBIDDEN, permission.kind)
    ELSE Return(None)

\* The authorization gate: authorize(permission, context).
authorize(permission, context) ==
    LET granted == Permission_authorize(permission, context) IN
    IF granted.kind # "return" THEN granted
    ELSE IF ~granted.value
        THEN HTTPException(HTTP_403_FORBIDDEN, "Insufficient permissions")
    ELSE Return(None)

Contexts == {BasicContext(u, o) : u \in Users \cup {None}, o \in Resources \cup {None}}

NoCall == [op |-> "none"]
NoToken == [op |-> "none"]

\* A caller evaluates one permission on one context.
PermissionAuthorize ==
    /\ call = NoCall
    /\ UNCHANGED <<now, issued, users, roles, regs, EXEMPT_PATHS, middlewares, questions, details>>
    /\ \E p \in Permissions, c \in Contexts :
        call' = [op |-> "Permission.authorize", permission |-> p, context |-> c,
                 outcome |-> Permission_authorize(p, c)]

\* A caller passes one permission and one context through the gate.
Authorize ==
    /\ call = NoCall
    /\ UNCHANGED <<now, issued, users, roles, regs, EXEMPT_PATHS, middlewares, questions, details>>
    /\ \E p \in Permissions, c \in Contexts :
        call' = [op |-> "authorize", permission |-> p, context |-> c,
                 outcome |-> authorize(p, c)]

(***************************************************************************)
(* Token codec: app/utils/jwt.py over the JWT library                      *)
(***************************************************************************)
SECRET_KEY == "your-secret-key-change-in-production"
ALGORITHM == "HS256"
ACCESS_TOKEN_EXPIRE_MINUTES == 30
RESET_TOKEN_EXPIRE_MINUTES == 15

MaxClock == 32

\* The claims maps callers pass: any subset of these keys, JSON values.
ClaimValues(k) ==
    CASE k = "email" -> EmailValues
      [] k = "user_id" -> {StrV("1")}
      [] k = "type" -> {StrV("reset"), StrV("access")}
      [] OTHER -> {IntV(5)}
ClaimKeys == {"email", "user_id", "type", "exp"}
AllClaimValues == UNION {ClaimValues(k) : k \in ClaimKeys}
ClaimsMaps ==
    UNION {{d \in [S -> AllClaimValues] : \A k \in S : d[k] \in ClaimValues(k)}
               : S \in SUBSET ClaimKeys}

\* dict.get(key): the value, or None when the key is absent.
dict_get(d, key) == IF key \in DOMAIN d THEN d[key] ELSE None
\* dict.update({key: value}), as the new contents of the dict.
dict_update(d, key, value) ==
    [k \in DOMAIN d \cup {key} |-> IF k = key THEN value ELSE d[k]]

\* jwt.encode: a token is its payload together with the key and algorithm that
\* signed it; any other string is no token.
jwt_encode(payload, key, algorithm) ==
    [t |-> "jwt", payload |-> payload, key |-> key, alg |-> algorithm]

\* jwt.decode at the current time: format, algorithm and signature first, then
\* the exp claim, which has passed once exp <= now.
jwt_decode(token, key, algorithms) ==
    IF token.t # "jwt" THEN [exc |-> "DecodeError"]
    ELSE IF token.alg \notin algorithms THEN [exc |-> "InvalidAlgorithmError"]
    ELSE IF token.key # key THEN [exc |-> "InvalidSignatureError"]
    ELSE IF "exp" \in DOMAIN token.payload /\ token.payload["exp"].n <= now
        THEN [exc |-> "ExpiredSignatureError"]
    ELSE [exc |-> "none", payload |-> token.payload]

\* jwt.InvalidTokenError and its subclasses.
IsInvalidTokenError(exc) ==
    exc \in {"DecodeError", "InvalidAlgorithmError", "InvalidSignatureError",
             "ExpiredSignatureError"}

\* Mutant: the access token is given the reset token's lifetime.
create_access_token_ResetTtl(data) ==
    LET to_encode == data
        expire == now + RESET_TOKEN_EXPIRE_MINUTES
        encoded == dict_update(to_encode, "exp", IntV(expire))
    IN  [token |-> jwt_encode(encoded, SECRET_KEY, ALGORITHM), data |-> data]

\* Mutant: exp is written into the caller's dict (no copy is taken).
create_access_token_NoCopy(data) ==
    LET expire == now + ACCESS_TOKEN_EXPIRE_MINUTES
        encoded == dict_update(data, "exp", IntV(expire))
    IN  [token |-> jwt_encode(encoded, SECRET_KEY, ALGORITHM), data |-> encoded]

\* JWTUtils.create_access_token(data): the token, and the caller's dict as the
\* call leaves it (the update is made on a copy).
create_access_token(data) ==
    LET to_encode == data
        expire == now + ACCESS_TOKEN_EXPIRE_MINUTES
        encoded == dict_update(to_encode, "exp", IntV(expire))
    IN  [token |-> jwt_encode(encoded, SECRET_KEY, ALGORITHM), data |-> data]

\* JWTUtils.decode_access_token(token)
decode_access_token(token) ==
    LET r == jwt_decode(token, SECRET_KEY, {ALGORITHM}) IN
    IF r.exc = "none" THEN Return(r.payload)
    ELSE IF r.exc = "ExpiredSignatureError"
        THEN HTTPException(HTTP_401_UNAUTHORIZED, "Token has expired")
    ELSE HTTPException(HTTP_401_UNAUTHORIZED, "Invalid token")

\* Mutant: the reset token outlives the access token.
create_reset_token_LongTtl(email) ==
    LET data == [email |-> StrV(email), type |-> StrV("reset")]
        expire == now + 2 * ACCESS_TOKEN_EXPIRE_MINUTES
        encoded == dict_update(data, "exp", IntV(expire))
    IN  jwt_encode(encoded, SECRET_KEY, ALGORITHM)

\* JWTUtils.create_reset_token(email)
create_reset_token(email) ==
    LET data == [email |-> StrV(email), type |-> StrV("reset")]
        to_encode == data
        expire == now + RESET_TOKEN_EXPIRE_MINUTES
        encoded == dict_update(to_encode, "exp", IntV(expire))
    IN  jwt_encode(encoded, SECRET_KEY, ALGORITHM)

\* Mutant: the type claim is not looked at.
decode_reset_token_NoTypeCheck(token) ==
    LET r == jwt_decode(token, SECRET_KEY, {ALGORITHM}) IN
    IF r.exc = "none" THEN Return(dict_get(r.payload, "email"))
    ELSE IF r.exc = "ExpiredSignatureError"
        THEN HTTPException(HTTP_400_BAD_REQUEST, "Reset token has expired")
    ELSE HTTPException(HTTP_400_BAD_REQUEST, "Invalid reset token")

\* JWTUtils.decode_reset_token(token)
decode_reset_token(token) ==
    LET r == jwt_decode(token, SECRET_KEY, {ALGORITHM}) IN
    IF r.exc = "none"
        THEN IF dict_get(r.payload, "type") # StrV("reset")
                THEN HTTPException(HTTP_400_BAD_REQUEST, "Invalid token type")
             ELSE Return(dict_get(r.payload, "email"))
    ELSE IF r.exc = "ExpiredSignatureError"
        THEN HTTPException(HTTP_400_BAD_REQUEST, "Reset token has expired")
    ELSE HTTPException(HTTP_400_BAD_REQUEST, "Invalid reset token")

(***************************************************************************)
(* Bearer-token session provider: app/services/token_session_provider.py   *)
(***************************************************************************)
\* A header value is a string, kept as its pieces: words, single spaces and
\* tokens.
Lit(s) == [a |-> "lit", s |-> s]
Sp == [a |-> "sp"]
Tok(token) == [a |-> "tok", tok |-> token]
HeaderStr(atoms) == [t |-> "str", atoms |-> atoms]

\* str.startswith("Bearer ")
startswith_Bearer(s) ==
    Len(s.atoms) >= 2 /\ s.atoms[1] = Lit("Bearer") /\ s.atoms[2] = Sp

\* str.split(" "): the pieces between the spaces, empty pieces included.
RECURSIVE split(_)
split(atoms) ==
    IF atoms = <<>> THEN << <<>> >>
    ELSE LET rest == split(Tail(atoms)) IN
         IF Head(atoms) = Sp THEN << <<>> >> \o rest
         ELSE << <<Head(atoms)>> \o rest[1] >> \o Tail(rest)

\* str.lower() on the words a header is made of; a token is left as it is
\* (no token reads "bearer").
LowerWord(s) ==
    CASE s = "Bearer" -> "bearer"
      [] s = "BEARER" -> "bearer"
      [] s = "Basic" -> "basic"
      [] OTHER -> s
lower(piece) ==
    [i \in DOMAIN piece |->
        IF piece[i].a = "lit" THEN Lit(LowerWord(piece[i].s)) ELSE piece[i]]

\* A piece of the header read as a token string.
AsToken(piece) ==
    IF Len(piece) = 1 /\ piece[1].a = "tok" THEN piece[1].tok
    ELSE IF piece = <<>> THEN StrV("")
    ELSE StrV("not-a-jwt")

\* TokenSessionProvider.get_session(request)
get_session(request) ==
    LET authorization == dict_get(request.headers, "Authorization") IN
    IF authorization = None \/ authorization.atoms = <<>>
        THEN HTTPException(HTTP_401_UNAUTHORIZED, "Authorization header missing")
    ELSE IF ~startswith_Bearer(authorization)
        THEN HTTPException(HTTP_401_UNAUTHORIZED,
                           "Authorization header must start with 'Bearer '")
    ELSE LET token == AsToken(split(authorization.atoms)[2])
             payload == decode_access_token(token)
         IN  payload

(***************************************************************************)
(* User and role stores: app/models/user.py, app/domain/entities/user.py,  *)
(* app/models/role.py, app/repositories/user_repository.py                 *)
(***************************************************************************)
\* Passwords that pass RegisterRequest.validate_password.
Passwords == {"Passw0rd!", "Secret1!"}

\* passlib's bcrypt context: the digest is not the password, and verify
\* accepts exactly the password the digest was made of (the salt plays no part
\* in what verify answers).
hash_password(password) == [t |-> "bcrypt", of |-> password]
verify_password(plain_password, hashed_password) == hashed_password.of = plain_password

\* A document of the "users" collection.  The persistence model carries the
\* role link, the domain entity the is_active flag (default True).
UserDocument(id, email, password, role, is_active) ==
    [id |-> IntV(id), email |-> StrV(email), password |-> password,
     role |-> role, is_active |-> is_active]

\* Python's truth test: None, "" and {} are false.
falsy(v) == v = None \/ v = StrV("") \/ v = HeaderStr(<<>>) \/ DOMAIN v = {}

\* UserRepository.find_by_email: User.find_one(User.email == email), the first
\* matching document or None.
find_by_email(email) ==
    LET found == {i \in DOMAIN users : users[i].email = email} IN
    IF found = {} THEN None
    ELSE users[CHOOSE i \in found : \A j \in found : i <= j]

(***************************************************************************)
(* app/utils/jwt_token.py and app/services/current_user_service.py         *)
(***************************************************************************)
JWT_SECRET_KEY == "your-secret-key-here-change-in-production"
JWT_ALGORITHM == "HS256"
JWT_ACCESS_TOKEN_EXPIRE_MINUTES == 30
\* jwt_token.py reads setting.JWT_SECRET and setting.JWT_EXPIRATION_HOURS,
\* which configs/setting.py does not declare: the signing secret is taken to
\* be the one configured secret, the lifetime one hour.
JWT_SECRET == JWT_SECRET_KEY
JWT_EXPIRATION_HOURS == 1

\* generate_token(user_data)
generate_token(user_data) ==
    LET expiration == now + 60 * JWT_EXPIRATION_HOURS
        payload == [user_data |-> user_data, exp |-> IntV(expiration), iat |-> IntV(now)]
    IN  jwt_encode(payload, JWT_SECRET, JWT_ALGORITHM)

\* Mutant: the whole payload is handed back, not its user_data.
verify_token_WholePayload(token) ==
    LET r == jwt_decode(token, JWT_SECRET, {JWT_ALGORITHM}) IN
    IF r.exc = "none" THEN r.payload ELSE None

\* verify_token(token): the user_data of a token that decodes, else None.
verify_token(token) ==
    LET r == jwt_decode(token, JWT_SECRET, {JWT_ALGORITHM}) IN
    IF r.exc = "none" THEN dict_get(r.payload, "user_data") ELSE None

\* str.split(): the pieces between runs of whitespace, none of them empty.
split_whitespace(atoms) == SelectSeq(split(atoms), LAMBDA piece : piece # <<>>)

\* extract_token_from_header(authorization_header)
extract_token_from_header(authorization_header) ==
    IF falsy(authorization_header) THEN None
    ELSE LET parts == split_whitespace(authorization_header.atoms) IN
         IF Len(parts) # 2 \/ lower(parts[1]) # <<Lit("bearer")>> THEN None
         ELSE AsToken(parts[2])

UnauthorizedException(message) ==
    [kind |-> "raise", exc |-> "UnauthorizedException", message |-> message]

\* Mutant: the user is looked up by whatever email the token carries before
\* the email is tested, and an unknown user is reported first.
get_current_user_LookupFirst(request) ==
    LET authorization_header == dict_get(request.headers, "Authorization")
        token == extract_token_from_header(authorization_header)
        user_data == verify_token(token)
        email == dict_get(user_data, "email")
        user == find_by_email(email)
    IN  IF falsy(authorization_header) THEN
            [outcome |-> UnauthorizedException("Authorization header is required"),
             queries |-> <<>>]
        ELSE IF falsy(token) THEN
            [outcome |-> UnauthorizedException(
                 "Invalid Authorization header format. Expected: Bearer <token>"),
             queries |-> <<>>]
        ELSE IF falsy(user_data) THEN
            [outcome |-> UnauthorizedException("Invalid or expired token"),
             queries |-> <<>>]
        ELSE IF user = None THEN
            [outcome |-> UnauthorizedException("User not found"), queries |-> <<email>>]
        ELSE IF falsy(email) THEN
            [outcome |-> UnauthorizedException("Invalid token: missing user email"),
             queries |-> <<email>>]
        ELSE [outcome |-> Return(user), queries |-> <<email>>]

\* CurrentUserService.get_current_user(request): the outcome, and the emails
\* the user repository was asked for.
get_current_user(request) ==
    LET authorization_header == dict_get(request.headers, "Authorization")
        token == extract_token_from_header(authorization_header)
        user_data == verify_token(token)
        email == dict_get(user_data, "email")
        user == find_by_email(email)
    IN  IF falsy(authorization_header) THEN
            [outcome |-> UnauthorizedException("Authorization header is required"),
             queries |-> <<>>]
        ELSE IF falsy(token) THEN
            [outcome |-> UnauthorizedException(
                 "Invalid Authorization header format. Expected: Bearer <token>"),
             queries |-> <<>>]
        ELSE IF falsy(user_data) THEN
            [outcome |-> UnauthorizedException("Invalid or expired token"),
             queries |-> <<>>]
        ELSE IF falsy(email) THEN
            [outcome |-> UnauthorizedException("Invalid token: missing user email"),
             queries |-> <<>>]
        ELSE IF falsy(user) THEN
            [outcome |-> UnauthorizedException("User not found"), queries |-> <<email>>]
        ELSE [outcome |-> Return(user), queries |-> <<email>>]

(***************************************************************************)
(* app/services/user_service.py and the login and forgot-password use      *)
(* cases.  db_ok says whether the database answers the call's queries.     *)
(***************************************************************************)
HTTP_409_CONFLICT == 409
HTTP_500_INTERNAL_SERVER_ERROR == 500

\* UserService.check_user_exist(email)
check_user_exist(email, db_ok) ==
    IF ~db_ok
        THEN HTTPException(HTTP_500_INTERNAL_SERVER_ERROR,
                           "Error checking user existence: ServerSelectionTimeoutError")
    ELSE Return(find_by_email(email) # None)

\* The request objects login is called with: LoginRequest of app/schemas
\* (email, password) and LoginRequest of schemas (username, password).
LoginRequests ==
    [email : EmailValues, password : Passwords]
    \cup [username : EmailValues, password : Passwords]

\* create_access_token(data, expires_delta) of app.utils.jwt_utils: the
\* caller's claims and an expiry, signed with the configured secret.
jwt_utils_create_access_token(data, expires_delta) ==
    jwt_encode(dict_update(data, "exp", IntV(now + expires_delta)),
               JWT_SECRET_KEY, JWT_ALGORITHM)

\* Mutant: an unknown email is answered with 404.
LoginUC_action_UserNotFound(data, db_ok) ==
    LET found ==
            IF ~hasattr(data, "username") THEN [exc |-> "AttributeError"]
            ELSE IF ~db_ok THEN [exc |-> "ServerSelectionTimeoutError"]
            ELSE [exc |-> "none", user |-> find_by_email(data.username)]
    IN  IF found.exc # "none"
            THEN HTTPException(HTTP_401_UNAUTHORIZED, "Invalid credentials")
        ELSE IF falsy(found.user)
            THEN HTTPException(404, "User not found")
        ELSE IF ~verify_password(data.password, found.user.password)
            THEN HTTPException(HTTP_401_UNAUTHORIZED, "Invalid credentials")
        ELSE Return([access_token |->
                         jwt_utils_create_access_token([sub |-> StrV(Str(found.user.id))],
                                                       JWT_ACCESS_TOKEN_EXPIRE_MINUTES),
                     token_type |-> "bearer",
                     user |-> [id |-> StrV(Str(found.user.id)), email |-> found.user.email]])

\* LoginUC.action(data).  The lookup runs inside try/except Exception: a
\* request without a username attribute and a failing query end like an
\* unknown email.
LoginUC_action(data, db_ok) ==
    LET found ==
            IF ~hasattr(data, "username") THEN [exc |-> "AttributeError"]
            ELSE IF ~db_ok THEN [exc |-> "ServerSelectionTimeoutError"]
            ELSE [exc |-> "none", user |-> find_by_email(data.username)]
    IN  IF found.exc # "none"
            THEN HTTPException(HTTP_401_UNAUTHORIZED, "Invalid credentials")
        ELSE IF falsy(found.user)
            THEN HTTPException(HTTP_401_UNAUTHORIZED, "Invalid credentials")
        ELSE IF ~verify_password(data.password, found.user.password)
            THEN HTTPException(HTTP_401_UNAUTHORIZED, "Invalid credentials")
        ELSE Return([access_token |->
                         jwt_utils_create_access_token([sub |-> StrV(Str(found.user.id))],
                                                       JWT_ACCESS_TOKEN_EXPIRE_MINUTES),
                     token_type |-> "bearer",
                     user |-> [id |-> StrV(Str(found.user.id)), email |-> found.user.email]])

ForgotPasswordResponse(success, message) == [success |-> success, message |-> message]

\* Mutant: an unknown email is reported to the caller.
ForgotPasswordUC_action_TellsUnknown(data, db_ok) ==
    LET user_exists == check_user_exist(data.email, db_ok) IN
    IF user_exists.kind # "return"
        THEN [outcome |-> HTTPException(HTTP_500_INTERNAL_SERVER_ERROR,
                                        "Failed to process forgot password request"),
              reset_token |-> None]
    ELSE [outcome |-> Return(ForgotPasswordResponse(user_exists.value,
                  "If the email exists, a password reset link has been sent")),
          reset_token |-> IF user_exists.value THEN create_reset_token(data.email.s)
                          ELSE None]

\* ForgotPasswordUC.action(data): the outcome, and the reset token that is
\* made (and printed) when the user exists.
ForgotPasswordUC_action(data, db_ok) ==
    LET user_exists == check_user_exist(data.email, db_ok) IN
    IF user_exists.kind # "return"
        THEN [outcome |-> HTTPException(HTTP_500_INTERNAL_SERVER_ERROR,
                                        "Failed to process forgot password request"),
              reset_token |-> None]
    ELSE [outcome |-> Return(ForgotPasswordResponse(TRUE,
                  "If the email exists, a password reset link has been sent")),
          reset_token |-> IF user_exists.value THEN create_reset_token(data.email.s)
                          ELSE None]

(***************************************************************************)
(* app/services/forgot_password_service.py and                             *)
(* app/use_cases/reset_password_uc.py                                      *)
(***************************************************************************)
HTTP_404_NOT_FOUND == 404

\* What the notification collaborator does when asked to send: it returns
\* True, returns False, or raises.
NotifierBehaviours == {"True", "False", "raise"}

\* Mutant: the notification is sent whether or not the user exists.
send_forgot_password_notification_Always(email, db_ok, notifier) ==
    LET user_exists == check_user_exist(email, db_ok)
        reset_token == create_reset_token(email.s)
    IN  IF user_exists.kind # "return"
            THEN [outcome |-> Return(FALSE), reset_token |-> None, sent |-> <<>>]
        ELSE [outcome |-> Return(notifier = "True"), reset_token |-> reset_token,
              sent |-> <<[email |-> email, reset_token |-> reset_token]>>]

\* Mutant: a failed notification is not reported.
send_forgot_password_notification_AlwaysTrue(email, db_ok, notifier) ==
    LET user_exists == check_user_exist(email, db_ok)
        reset_token == create_reset_token(email.s)
    IN  IF user_exists.kind # "return"
            THEN [outcome |-> Return(FALSE), reset_token |-> None, sent |-> <<>>]
        ELSE IF ~user_exists.value
            THEN [outcome |-> Return(TRUE), reset_token |-> None, sent |-> <<>>]
        ELSE [outcome |-> Return(TRUE), reset_token |-> reset_token,
              sent |-> <<[email |-> email, reset_token |-> reset_token]>>]

\* ForgotPasswordService.send_forgot_password_notification(email): the
\* outcome, the reset token made, and the calls made to the notification
\* collaborator.  Every exception, of the existence check or of the
\* collaborator, ends in False.
send_forgot_password_notification(email, db_ok, notifier) ==
    LET user_exists == check_user_exist(email, db_ok)
        reset_token == create_reset_token(email.s)
    IN  IF user_exists.kind # "return"
            THEN [outcome |-> Return(FALSE), reset_token |-> None, sent |-> <<>>]
        ELSE IF ~user_exists.value
            THEN [outcome |-> Return(TRUE), reset_token |-> None, sent |-> <<>>]
        ELSE [outcome |-> Return(notifier = "True"), reset_token |-> reset_token,
              sent |-> <<[email |-> email, reset_token |-> reset_token]>>]

\* UserService.find_by_email(email)
UserService_find_by_email(email, db_ok) ==
    IF ~db_ok
        THEN HTTPException(HTTP_500_INTERNAL_SERVER_ERROR,
                           "Error finding user: ServerSelectionTimeoutError")
    ELSE Return(find_by_email(email))

\* UserService.save_user(user): user.create() inserts the document, and the
\* insert of a document whose id is already stored is refused by the
\* database (duplicate key).  The outcome, and the collection afterwards.
save_user(user, db_ok) ==
    IF ~db_ok
        THEN [outcome |-> HTTPException(HTTP_500_INTERNAL_SERVER_ERROR,
                                        "Error saving user: ServerSelectionTimeoutError"),
              users |-> users]
    ELSE IF \E i \in DOMAIN users : users[i].id = user.id
        THEN [outcome |-> HTTPException(HTTP_500_INTERNAL_SERVER_ERROR,
                                        "Error saving user: DuplicateKeyError"),
              users |-> users]
    ELSE [outcome |-> Return(user), users |-> Append(users, user)]

ResetPasswordResponse(success, message) == [success |-> success, message |-> message]

\* ResetPasswordRequest: token, new_password (confirm_new_password equals it).
ResetPasswordRequest(token, new_password) ==
    [token |-> token, new_password |-> new_password]

\* ResetPasswordUC.action(data): the outcome, and the users collection
\* afterwards.  An HTTPException raised on the way is re-raised as it is.
ResetPasswordUC_action(data, db_ok) ==
    LET email == decode_reset_token(data.token)
        found == UserService_find_by_email(email.value, db_ok)
        hashed_password == hash_password(data.new_password)
        user == [found.value EXCEPT !.password = hashed_password]
        saved == save_user(user, db_ok)
    IN  IF email.kind # "return" THEN [outcome |-> email, users |-> users]
        ELSE IF falsy(email.value)
            THEN [outcome |-> HTTPException(HTTP_400_BAD_REQUEST, "Invalid reset token"),
                  users |-> users]
        ELSE IF found.kind # "return" THEN [outcome |-> found, users |-> users]
        ELSE IF falsy(found.value)
            THEN [outcome |-> HTTPException(HTTP_404_NOT_FOUND, "User not found"),
                  users |-> users]
        ELSE IF saved.outcome.kind # "return"
            THEN [outcome |-> saved.outcome, users |-> saved.users]
        ELSE [outcome |-> Return(ResetPasswordResponse(TRUE,
                              "Password has been reset successfully")),
              users |-> saved.users]

(***************************************************************************)
(* app/services/role_service.py and app/use_cases/register_uc.py.  A       *)
(* register request runs from one awaited call to the next; requests in    *)
(* flight take their steps in any order.                                   *)
(***************************************************************************)
MaxRegs == 2
MaxUsers == 3
RegIds == 1..MaxRegs
NoReg == [pc |-> "idle"]

\* seed_default_roles
DefaultRoles == {StrV("user"), StrV("admin"), StrV("moderator")}

\* RegisterRequest: email, password and the role field the caller may set.
RegisterRequests ==
    [email : EmailValues, password : {"Passw0rd!"},
     role : {StrV("user"), StrV("admin"), StrV("guest")}]

\* RoleService.get_role_by_name(name): Role.find_one(Role.name == name)
get_role_by_name(name) == IF name \in roles THEN name ELSE None

\* The locals of RegisterUC.action as the request arrives.
RegisterLocals(data) ==
    [pc |-> "check_user_exist", data |-> data, role |-> None,
     hashed_password |-> None, saved_user |-> None, outcome |-> None]

\* Mutant: an existing email does not stop the registration.
RegisterUC_check_user_exist_NoConflict(data) ==
    [RegisterLocals(data) EXCEPT !.pc = "get_role_by_name"]

\* RegisterUC.action up to its first await: the existence check and the 409.
RegisterUC_check_user_exist(data) ==
    IF check_user_exist(StrV(Str(data.email)), TRUE).value
        THEN [RegisterLocals(data) EXCEPT
                  !.pc = "done",
                  !.outcome = HTTPException(HTTP_409_CONFLICT,
                                            "User with this email already exists")]
    ELSE [RegisterLocals(data) EXCEPT !.pc = "get_role_by_name"]

\* UserInfo and RegisterResponse are validated on construction: a required
\* field that is not given raises ValidationError; token_type has a default.
UserInfo(email, role) == [email |-> email, role |-> role]
RegisterResponse(kwargs) ==
    IF {"success", "message", "user", "access_token"} \subseteq DOMAIN kwargs
        THEN Return(dict_update(kwargs, "token_type", StrV("bearer")))
    ELSE PyError("ValidationError")

\* RegisterUC.action after save_user: fetch the role link, build the response.
RegisterUC_respond(saved_user) ==
    LET role_name == IF ~falsy(saved_user.role) THEN saved_user.role ELSE None
        user_info == UserInfo(saved_user.email, role_name)
    IN  RegisterResponse([success |-> TRUE, message |-> "Registration successful",
                          user |-> user_info])

(***************************************************************************)
(* app/middleware/auth_middleware.py                                       *)
(***************************************************************************)
MaxMiddlewares == 2

\* A Python set.
SetV(elems) == [t |-> "set", elems |-> elems]

\* The value of EXEMPT_PATHS in the class body.
DefaultExemptPaths ==
    {"/", "/docs", "/openapi.json", "/redoc", "/login", "/register", "/health",
     "/public"}

\* AuthMiddleware.__init__(app, exempt_paths): self.EXEMPT_PATHS is the set
\* object of the class, and update() changes that object.  The class
\* attribute afterwards.
AuthMiddleware_init(exempt_paths) ==
    IF exempt_paths = None THEN EXEMPT_PATHS
    ELSE IF exempt_paths.elems = {} THEN EXEMPT_PATHS
    ELSE EXEMPT_PATHS \cup exempt_paths.elems

\* What get_user_id_from_token(token) does: it returns a user id, raises an
\* HTTPException, or raises another exception.
TokenValidations == {"user_id", "HTTPException", "Exception"}

MiddlewareFailure(detail) ==
    [kind |-> "raise", status_code |-> HTTP_401_UNAUTHORIZED, detail |-> detail,
     headers |-> [WWW_Authenticate |-> "Bearer"]]

\* AuthMiddleware.dispatch(request, call_next): Return("call_next") when the
\* request is passed on.  An instance has no EXEMPT_PATHS of its own, so
\* self.EXEMPT_PATHS reads the class attribute.
dispatch(self, request, validation) ==
    LET authorization == dict_get(request.headers, "Authorization")
        parts == split_whitespace(authorization.atoms)
    IN  IF request.url.path \in EXEMPT_PATHS THEN Return("call_next")
        ELSE IF request.method = "OPTIONS" THEN Return("call_next")
        ELSE IF falsy(authorization)
            THEN MiddlewareFailure("Authorization header missing")
        ELSE IF Len(parts) # 2
            THEN MiddlewareFailure("Invalid authorization header format")
        ELSE IF lower(parts[1]) # <<Lit("bearer")>>
            THEN MiddlewareFailure("Invalid authentication scheme")
        ELSE IF validation = "HTTPException"
            THEN [kind |-> "raise", raised_by |-> "get_user_id_from_token"]
        ELSE IF validation = "Exception"
            THEN MiddlewareFailure("Could not validate credentials")
        ELSE Return("call_next")

(***************************************************************************)
(* app/models/question.py, app/repositories/question_repository.py and     *)
(* app/use_cases/question_uc.py                                            *)
(***************************************************************************)
MaxQuestions == 3
MaxDetails == 2
DetailIds == 1..MaxDetails
NoDetail == [pc |-> "idle"]

\* QuestionStatus
PENDING == "pending"
APPROVED == "approved"
REJECTED == "rejected"
QuestionStatus == {PENDING, APPROVED, REJECTED}

Titles == {"How to treat a rash?", "Is this mole dangerous?"}

\* Question(**question_data): the fields the moderation and the view counter
\* use; status and view_count take their defaults when not given.
Question(id, question_data) ==
    [id |-> id,
     title |-> question_data.title,
     author_id |-> question_data.author_id,
     status |-> IF "status" \in DOMAIN question_data THEN question_data.status
                ELSE PENDING,
     view_count |-> IF "view_count" \in DOMAIN question_data
                        THEN question_data.view_count
                    ELSE 0]

\* QuestionRepository.create_question(question_data): the document stored.
create_question(question_data) ==
    [Question(Len(questions) + 1, question_data) EXCEPT !.status = PENDING]

\* CreateQuestionUC.action(data, author_id): the outcome, and the collection
\* afterwards.  Only title, content and symptom_ids are taken from data.
CreateQuestionUC_action(data, author_id) ==
    LET question_data == [title |-> data.title, author_id |-> author_id]
        question == create_question(question_data)
    IN  [outcome |-> Return([success |-> TRUE,
                             message |-> "Question created successfully. Waiting for approval.",
                             data |-> [question |-> question]]),
         questions |-> Append(questions, question)]

\* find(...).skip(skip).limit(limit).to_list()
skip_limit(found, skip, limit) ==
    SubSeq(found, skip + 1, IF skip + limit < Len(found) THEN skip + limit ELSE Len(found))

\* QuestionRepository.find_approved_questions(skip, limit)
find_approved_questions(skip, limit) ==
    skip_limit(SelectSeq(questions, LAMBDA q : q.status = APPROVED), skip, limit)

\* The sequence in reverse: sort([("created_at", -1)]).
RECURSIVE newest_first(_)
newest_first(found) ==
    IF found = <<>> THEN <<>>
    ELSE Append(newest_first(Tail(found)), Head(found))

\* QuestionRepository.find_pending_questions(skip, limit)
find_pending_questions(skip, limit) ==
    newest_first(skip_limit(SelectSeq(questions, LAMBDA q : q.status = PENDING),
                            skip, limit))

\* ListQuestionsUC.action(skip=skip, limit=limit)
ListQuestionsUC_action(skip, limit) ==
    LET found == find_approved_questions(skip, limit)
        result == [i \in DOMAIN found |->
                      [id |-> found[i].id, title |-> found[i].title,
                       author_id |-> found[i].author_id,
                       view_count |-> found[i].view_count]]
    IN  Return([success |-> TRUE, data |-> result,
                pagination |-> [skip |-> skip, limit |-> limit, count |-> Len(result)]])

\* ListPendingQuestionsUC.action(skip=skip, limit=limit)
ListPendingQuestionsUC_action(skip, limit) ==
    LET found == find_pending_questions(skip, limit)
        result == [i \in DOMAIN found |->
                      [id |-> found[i].id, title |-> found[i].title,
                       author_id |-> found[i].author_id,
                       status |-> found[i].status,
                       view_count |-> found[i].view_count]]
    IN  Return([success |-> TRUE, data |-> result,
                pagination |-> [skip |-> skip, limit |-> limit, count |-> Len(result)]])

\* QuestionRepository.get_with_symptoms(question_id): Question.get reads the
\* stored document into an object of the request.
get_with_symptoms(question_id) ==
    IF \E i \in DOMAIN questions : questions[i].id = question_id
        THEN [question |-> questions[CHOOSE i \in DOMAIN questions :
                                         questions[i].id = question_id],
              symptoms |-> <<>>]
    ELSE None

\* question.save(): the stored document with the object's id is replaced by
\* the object.
Question_save(question) ==
    [i \in DOMAIN questions |->
        IF questions[i].id = question.id THEN question ELSE questions[i]]

(***************************************************************************)
(* Calls on the token codec and the session provider                       *)
(***************************************************************************)
\* A token signed with a key that is not the server's.
Tamper(token) == [token EXCEPT !.key = "not-the-secret"]

\* What a client can present: the token it was issued, a re-signed copy of
\* it, or a string that is no token.
Presented ==
    {StrV("invalid-token")}
    \cup (IF issued.op = "none" THEN {} ELSE {issued.token, Tamper(issued.token)})

BearerHeader(token) == HeaderStr(<<Lit("Bearer"), Sp, Tok(token)>>)
HeaderForms(token) ==
    {BearerHeader(token),
     HeaderStr(<<Lit("bearer"), Sp, Tok(token)>>),
     HeaderStr(<<Lit("Basic"), Sp, Tok(token)>>),
     HeaderStr(<<Lit("Bearer"), Sp, Sp, Tok(token)>>),
     HeaderStr(<<Lit("Bearer"), Sp, Tok(token), Sp, Lit("extra")>>),
     HeaderStr(<<Tok(token)>>)}
RequestWith(header) == [headers |-> [Authorization |-> header]]
Requests ==
    {[headers |-> <<>>], RequestWith(HeaderStr(<<>>))}
    \cup {RequestWith(h) : h \in UNION {HeaderForms(tok) : tok \in Presented}}

CreateAccessToken ==
    /\ call = NoCall
    /\ UNCHANGED <<now, call, users, roles, regs, EXEMPT_PATHS, middlewares, questions, details>>
    /\ \E data \in ClaimsMaps :
        LET r == create_access_token(data) IN
        issued' = [op |-> "create_access_token", at |-> now, arg |-> data,
                   arg_after |-> r.data, token |-> r.token]

CreateResetToken ==
    /\ call = NoCall
    /\ UNCHANGED <<now, call, users, roles, regs, EXEMPT_PATHS, middlewares, questions, details>>
    /\ \E email \in Emails :
        issued' = [op |-> "create_reset_token", at |-> now, arg |-> email,
                   arg_after |-> email, token |-> create_reset_token(email)]

DecodeAccessToken ==
    /\ call = NoCall
    /\ UNCHANGED <<now, issued, users, roles, regs, EXEMPT_PATHS, middlewares, questions, details>>
    /\ \E token \in Presented :
        call' = [op |-> "decode_access_token", token |-> token, at |-> now,
                 outcome |-> decode_access_token(token)]

DecodeResetToken ==
    /\ call = NoCall
    /\ UNCHANGED <<now, issued, users, roles, regs, EXEMPT_PATHS, middlewares, questions, details>>
    /\ \E token \in Presented :
        call' = [op |-> "decode_reset_token", token |-> token, at |-> now,
                 outcome |-> decode_reset_token(token)]

GetSession ==
    /\ call = NoCall
    /\ UNCHANGED <<now, issued, users, roles, regs, EXEMPT_PATHS, middlewares, questions, details>>
    /\ \E request \in Requests :
        call' = [op |-> "get_session", request |-> request, at |-> now,
                 outcome |-> get_session(request)]

\* Time passes between calls.
Tick ==
    /\ call = NoCall
    /\ now < MaxClock
    /\ now' = now + 1
    /\ UNCHANGED <<issued, call, users, roles, regs, EXEMPT_PATHS, middlewares, questions, details>>

\* The outcome reaches the caller; the next call starts from there.
ReturnToCaller ==
    /\ call # NoCall
    /\ call' = NoCall
    /\ UNCHANGED <<now, issued, users, roles, regs, EXEMPT_PATHS, middlewares, questions, details>>

Init ==
    /\ now = 0
    /\ issued = NoToken
    /\ call = NoCall
    /\ users = <<>>
    /\ roles = {}
    /\ regs = [r \in RegIds |-> NoReg]
    /\ EXEMPT_PATHS = DefaultExemptPaths
    /\ middlewares = <<>>
    /\ questions = <<>>
    /\ details = [d \in DetailIds |-> NoDetail]

NextAuthz == PermissionAuthorize \/ Authorize \/ ReturnToCaller

SpecAuthz == Init /\ [][NextAuthz]_vars

NextToken ==
    \/ CreateAccessToken
    \/ CreateResetToken
    \/ DecodeAccessToken
    \/ DecodeResetToken
    \/ GetSession
    \/ Tick
    \/ ReturnToCaller

SpecToken == Init /\ [][NextToken]_vars

(***************************************************************************)
(* Calls on the current-user service and the login and forgot-password use *)
(* cases, over a user store that these calls only read                     *)
(***************************************************************************)
EmptyDict == [k \in {} |-> None]

\* The user_data a token is generated for.
UserDataMaps ==
    {EmptyDict, [first_name |-> StrV("Ann")], [email |-> StrV("")]}
    \cup {[email |-> e] : e \in EmailValues}
    \cup {[email |-> e, first_name |-> StrV("Ann")] : e \in EmailValues}

\* The stores the calls run against: up to one user per email, each active or
\* not, with a known password.
SeedUsers ==
    {UserDocument(1, "a@x.org", hash_password("Passw0rd!"), StrV("user"), a)
         : a \in BOOLEAN}
    \cup {UserDocument(2, "b@x.org", hash_password("Secret1!"), StrV("admin"), a)
              : a \in BOOLEAN}
SeedStores ==
    {<<>>} \cup {<<u>> : u \in SeedUsers}
    \cup {<<u, v>> : u \in {x \in SeedUsers : x.id = IntV(1)},
                     v \in {x \in SeedUsers : x.id = IntV(2)}}

\* A token generated one lifetime before the clock starts: expired throughout.
StaleToken ==
    jwt_encode([user_data |-> [email |-> StrV("a@x.org")], exp |-> IntV(0),
                iat |-> IntV(0 - 60 * JWT_EXPIRATION_HOURS)],
               JWT_SECRET, JWT_ALGORITHM)

SessionRequests ==
    {[headers |-> <<>>], RequestWith(HeaderStr(<<>>))}
    \cup {RequestWith(h) : h \in UNION {HeaderForms(tok) : tok \in Presented \cup {StaleToken}}}

GenerateToken ==
    /\ call = NoCall
    /\ UNCHANGED <<now, call, users, roles, regs, EXEMPT_PATHS, middlewares, questions, details>>
    /\ \E user_data \in UserDataMaps :
        issued' = [op |-> "generate_token", at |-> now, arg |-> user_data,
                   token |-> generate_token(user_data)]

GetCurrentUser ==
    /\ call = NoCall
    /\ UNCHANGED <<now, issued, users, roles, regs, EXEMPT_PATHS, middlewares, questions, details>>
    /\ \E request \in SessionRequests :
        LET r == get_current_user(request) IN
        call' = [op |-> "get_current_user", request |-> request, at |-> now,
                 outcome |-> r.outcome, queries |-> r.queries]

Login ==
    /\ call = NoCall
    /\ UNCHANGED <<now, users, roles, regs, EXEMPT_PATHS, middlewares, questions, details>>
    /\ \E data \in LoginRequests, db_ok \in BOOLEAN :
        LET outcome == LoginUC_action(data, db_ok) IN
        /\ call' = [op |-> "LoginUC.action", data |-> data, db_ok |-> db_ok,
                    at |-> now, outcome |-> outcome]
        /\ issued' = IF outcome.kind = "return"
                         THEN [op |-> "LoginUC.action", at |-> now, arg |-> data,
                               token |-> outcome.value.access_token]
                     ELSE issued

ForgotPassword ==
    /\ call = NoCall
    /\ UNCHANGED <<now, users, roles, regs, EXEMPT_PATHS, middlewares, questions, details>>
    /\ \E data \in [email : EmailValues], db_ok \in BOOLEAN :
        LET r == ForgotPasswordUC_action(data, db_ok) IN
        /\ call' = [op |-> "ForgotPasswordUC.action", data |-> data, db_ok |-> db_ok,
                    at |-> now, outcome |-> r.outcome]
        /\ issued' = IF r.reset_token # None
                         THEN [op |-> "create_reset_token", at |-> now,
                               arg |-> data.email.s, arg_after |-> data.email.s,
                               token |-> r.reset_token]
                     ELSE issued

InitSession ==
    /\ now = 0
    /\ issued = NoToken
    /\ call = NoCall
    /\ users \in SeedStores
    /\ roles = DefaultRoles
    /\ regs = [r \in RegIds |-> NoReg]
    /\ EXEMPT_PATHS = DefaultExemptPaths
    /\ middlewares = <<>>
    /\ questions = <<>>
    /\ details = [d \in DetailIds |-> NoDetail]

NextSession ==
    \/ GenerateToken
    \/ GetCurrentUser
    \/ Login
    \/ ForgotPassword
    \/ Tick
    \/ ReturnToCaller

SpecSession == InitSession /\ [][NextSession]_vars

(***************************************************************************)
(* Register requests in flight                                             *)
(***************************************************************************)
InFlight == {r \in RegIds : regs[r].pc # "idle"}
Saved == {r \in RegIds : regs[r].pc \in {"respond", "done"} /\ regs[r].saved_user # None}

\* A request arrives and its existence check is answered.
RegisterCheckUserExist(r) ==
    /\ regs[r].pc = "idle"
    /\ Len(users) + Cardinality(InFlight \ Saved) < MaxUsers
    /\ UNCHANGED <<now, issued, call, users, roles, EXEMPT_PATHS, middlewares, questions, details>>
    /\ \E data \in RegisterRequests :
        regs' = [regs EXCEPT ![r] = RegisterUC_check_user_exist(data)]

\* role = get_role_by_name(data.role)
RegisterGetRole(r) ==
    /\ regs[r].pc = "get_role_by_name"
    /\ UNCHANGED <<now, issued, call, users, roles, EXEMPT_PATHS, middlewares, questions, details>>
    /\ LET role == get_role_by_name(regs[r].data.role) IN
       regs' = [regs EXCEPT ![r] =
                   IF ~falsy(role)
                       THEN [regs[r] EXCEPT !.role = role, !.pc = "save_user"]
                   ELSE [regs[r] EXCEPT !.pc = "get_or_create_default_role"]]

\* get_or_create_default_role: the lookup of "user"
RegisterDefaultRole(r) ==
    /\ regs[r].pc = "get_or_create_default_role"
    /\ UNCHANGED <<now, issued, call, users, roles, EXEMPT_PATHS, middlewares, questions, details>>
    /\ LET role == get_role_by_name(StrV("user")) IN
       regs' = [regs EXCEPT ![r] =
                   IF ~falsy(role)
                       THEN [regs[r] EXCEPT !.role = role, !.pc = "save_user"]
                   ELSE [regs[r] EXCEPT !.pc = "create_role"]]

\* get_or_create_default_role: create_role("user", "Default user role")
RegisterCreateRole(r) ==
    /\ regs[r].pc = "create_role"
    /\ UNCHANGED <<now, issued, call, users, EXEMPT_PATHS, middlewares, questions, details>>
    /\ roles' = roles \cup {StrV("user")}
    /\ regs' = [regs EXCEPT ![r] = [regs[r] EXCEPT !.role = StrV("user"),
                                                   !.pc = "save_user"]]

\* hash_password, User(...), save_user
RegisterSaveUser(r) ==
    /\ regs[r].pc = "save_user"
    /\ UNCHANGED <<now, issued, call, roles, EXEMPT_PATHS, middlewares, questions, details>>
    /\ LET data == regs[r].data
           hashed_password == hash_password(data.password)
           new_user == UserDocument(Len(users) + 1, data.email.s, hashed_password,
                                    regs[r].role, TRUE)
       IN  /\ users' = Append(users, new_user)
           /\ regs' = [regs EXCEPT ![r] =
                          [regs[r] EXCEPT !.hashed_password = hashed_password,
                                          !.saved_user = new_user,
                                          !.pc = "respond"]]

\* fetch_link, UserInfo, RegisterResponse
RegisterRespond(r) ==
    /\ regs[r].pc = "respond"
    /\ UNCHANGED <<now, issued, call, users, roles, EXEMPT_PATHS, middlewares, questions, details>>
    /\ regs' = [regs EXCEPT ![r] =
                   [regs[r] EXCEPT !.outcome = RegisterUC_respond(regs[r].saved_user),
                                   !.pc = "done"]]

\* The outcome reaches the caller.
RegisterReturn(r) ==
    /\ regs[r].pc = "done"
    /\ UNCHANGED <<now, issued, call, users, roles, EXEMPT_PATHS, middlewares, questions, details>>
    /\ regs' = [regs EXCEPT ![r] = NoReg]

InitRegister ==
    /\ now = 0
    /\ issued = NoToken
    /\ call = NoCall
    /\ users \in {<<>>} \cup {<<u>> : u \in SeedUsers}
    /\ roles \in {{}, DefaultRoles}
    /\ regs = [r \in RegIds |-> NoReg]
    /\ EXEMPT_PATHS = DefaultExemptPaths
    /\ middlewares = <<>>
    /\ questions = <<>>
    /\ details = [d \in DetailIds |-> NoDetail]

NextRegister ==
    \E r \in RegIds :
        \/ RegisterCheckUserExist(r)
        \/ RegisterGetRole(r)
        \/ RegisterDefaultRole(r)
        \/ RegisterCreateRole(r)
        \/ RegisterSaveUser(r)
        \/ RegisterRespond(r)
        \/ RegisterReturn(r)

SpecRegister == InitRegister /\ [][NextRegister]_vars

(***************************************************************************)
(* app/use_cases/logout_uc.py                                              *)
(***************************************************************************)
LogoutResponse(success, message) == [success |-> success, message |-> message]

\* Mutant: logout answers without looking at the session.
LogoutUC_action_NoCheck(request) ==
    [outcome |-> Return(LogoutResponse(TRUE, "Logged out successfully")),
     queries |-> <<>>]

\* LogoutUC.action(request): the outcome, and the queries made on the users
\* collection.  Nothing is written.
LogoutUC_action(request) ==
    LET current == get_current_user(request) IN
    IF current.outcome.kind # "return"
        THEN [outcome |-> current.outcome, queries |-> current.queries]
    ELSE [outcome |-> Return(LogoutResponse(TRUE, "Logged out successfully")),
          queries |-> current.queries]

(***************************************************************************)
(* app/errors/error_handler.py: what the caller receives                   *)
(***************************************************************************)
JSONResponse(status_code, content) == [status_code |-> status_code, content |-> content]

\* http_exception_handler(request, exc): the detail of the exception is the
\* error and the message of the response.
http_exception_handler(exc) ==
    JSONResponse(exc.status_code,
                 [success |-> FALSE, error |-> exc.detail, message |-> exc.detail])

\* general_exception_handler(request, exc)
general_exception_handler(exc) ==
    JSONResponse(HTTP_500_INTERNAL_SERVER_ERROR,
                 [success |-> FALSE, error |-> "Internal Server Error",
                  message |-> "An unexpected error occurred. Please try again later."])

\* The response to a call that ended with `outcome`.
Received(outcome) ==
    IF outcome.kind = "raise" /\ "status_code" \in DOMAIN outcome
        THEN http_exception_handler(outcome)
    ELSE IF outcome.kind = "return" THEN JSONResponse(200, outcome.value)
    ELSE general_exception_handler(outcome)

(***************************************************************************)
(* Calls on the forgot-password service and the reset-password use case    *)
(***************************************************************************)
\* An access token of the main codec, issued now: a token of the wrong type.
AccessTokenNow == create_access_token([email |-> StrV("a@x.org")]).token

SendForgotPasswordNotification ==
    /\ call = NoCall
    /\ UNCHANGED <<now, users, roles, regs, EXEMPT_PATHS, middlewares, questions, details>>
    /\ \E email \in EmailValues, db_ok \in BOOLEAN, notifier \in NotifierBehaviours :
        LET r == send_forgot_password_notification(email, db_ok, notifier) IN
        /\ call' = [op |-> "send_forgot_password_notification", email |-> email,
                    db_ok |-> db_ok, notifier |-> notifier, at |-> now,
                    outcome |-> r.outcome, reset_token |-> r.reset_token,
                    sent |-> r.sent]
        /\ issued' = IF r.reset_token # None
                         THEN [op |-> "create_reset_token", at |-> now,
                               arg |-> email.s, arg_after |-> email.s,
                               token |-> r.reset_token]
                     ELSE issued

ResetPassword ==
    /\ call = NoCall
    /\ UNCHANGED <<now, issued, roles, regs, EXEMPT_PATHS, middlewares, questions, details>>
    /\ \E token \in Presented \cup {AccessTokenNow}, new_password \in Passwords,
          db_ok \in BOOLEAN :
        LET data == ResetPasswordRequest(token, new_password)
            r == ResetPasswordUC_action(data, db_ok)
        IN  /\ call' = [op |-> "ResetPasswordUC.action", data |-> data,
                        db_ok |-> db_ok, at |-> now, before |-> users,
                        outcome |-> r.outcome]
            /\ users' = r.users

NextRecovery ==
    \/ CreateResetToken
    \/ ForgotPassword
    \/ SendForgotPasswordNotification
    \/ ResetPassword
    \/ Tick
    \/ ReturnToCaller

SpecRecovery == InitSession /\ [][NextRecovery]_vars

(***************************************************************************)
(* Calls on logout                                                         *)
(***************************************************************************)
Logout ==
    /\ call = NoCall
    /\ UNCHANGED <<now, issued, users, roles, regs, EXEMPT_PATHS, middlewares, questions, details>>
    /\ \E request \in SessionRequests :
        LET r == LogoutUC_action(request) IN
        call' = [op |-> "LogoutUC.action", request |-> request, at |-> now,
                 outcome |-> r.outcome, queries |-> r.queries]

NextLogout ==
    \/ GenerateToken
    \/ Logout
    \/ GetCurrentUser
    \/ Tick
    \/ ReturnToCaller

SpecLogout == InitSession /\ [][NextLogout]_vars

(***************************************************************************)
(* The authentication middleware: instances and requests                   *)
(***************************************************************************)
ExemptPathArgs == {None, SetV({}), SetV({"/metrics"}), SetV({"/status"})}
Paths == {"/login", "/metrics", "/status", "/questions"}
MiddlewareRequests ==
    [url : [path : Paths], method : {"GET", "OPTIONS"},
     headers : {<<>>} \cup {[Authorization |-> h] :
                    h \in {HeaderStr(<<>>)} \cup HeaderForms(StrV("invalid-token"))}]

NewAuthMiddleware ==
    /\ call = NoCall
    /\ Len(middlewares) < MaxMiddlewares
    /\ UNCHANGED <<now, issued, call, users, roles, regs, questions, details>>
    /\ \E exempt_paths \in ExemptPathArgs :
        /\ EXEMPT_PATHS' = AuthMiddleware_init(exempt_paths)
        /\ middlewares' = Append(middlewares, [exempt_paths |-> exempt_paths])

Dispatch ==
    /\ call = NoCall
    /\ UNCHANGED <<now, issued, users, roles, regs, EXEMPT_PATHS, middlewares,
                   questions, details>>
    /\ \E m \in DOMAIN middlewares, request \in MiddlewareRequests,
          validation \in TokenValidations :
        call' = [op |-> "AuthMiddleware.dispatch", self |-> m, request |-> request,
                 validation |-> validation,
                 outcome |-> dispatch(middlewares[m], request, validation)]

NextMiddleware ==
    \/ NewAuthMiddleware
    \/ Dispatch
    \/ ReturnToCaller

SpecMiddleware == Init /\ [][NextMiddleware]_vars

(***************************************************************************)
(* Calls on the questions                                                  *)
(***************************************************************************)
\* Collections the moderation can have left: up to two questions, of any
\* status, none viewed yet.
SeedQuestions ==
    {<<>>}
    \cup {<<[Question(1, [title |-> "How to treat a rash?", author_id |-> "u1"])
                EXCEPT !.status = s1]>> : s1 \in QuestionStatus}
    \cup {<<[Question(1, [title |-> "How to treat a rash?", author_id |-> "u1"])
                EXCEPT !.status = s1],
            [Question(2, [title |-> "Is this mole dangerous?", author_id |-> "u2"])
                EXCEPT !.status = s2]>> : s1 \in QuestionStatus, s2 \in QuestionStatus}

\* What the form sends: a title, and whatever else the caller adds.
QuestionCreates ==
    [title : Titles] \cup [title : Titles, status : QuestionStatus]

CreateQuestion ==
    /\ call = NoCall
    /\ Len(questions) < MaxQuestions
    /\ UNCHANGED <<now, issued, users, roles, regs, EXEMPT_PATHS, middlewares, details>>
    /\ \E data \in QuestionCreates :
        LET r == CreateQuestionUC_action(data, "default_user_123") IN
        /\ call' = [op |-> "CreateQuestionUC.action", data |-> data,
                    outcome |-> r.outcome]
        /\ questions' = r.questions

ListQuestions ==
    /\ call = NoCall
    /\ UNCHANGED <<now, issued, users, roles, regs, EXEMPT_PATHS, middlewares,
                   questions, details>>
    /\ \E skip \in 0..1, limit \in 1..2 :
        call' = [op |-> "ListQuestionsUC.action", skip |-> skip, limit |-> limit,
                 outcome |-> ListQuestionsUC_action(skip, limit)]

ListPendingQuestions ==
    /\ call = NoCall
    /\ UNCHANGED <<now, issued, users, roles, regs, EXEMPT_PATHS, middlewares,
                   questions, details>>
    /\ \E skip \in 0..1, limit \in 1..2 :
        call' = [op |-> "ListPendingQuestionsUC.action", skip |-> skip,
                 limit |-> limit,
                 outcome |-> ListPendingQuestionsUC_action(skip, limit)]

\* GetQuestionDetailUC.action up to the end of get_with_symptoms: the
\* document is read, or the request ends with 404.
DetailGet(d) ==
    /\ details[d].pc = "idle"
    /\ UNCHANGED <<now, issued, call, users, roles, regs, EXEMPT_PATHS, middlewares,
                   questions>>
    /\ \E question_id \in 1..MaxQuestions :
        LET result == get_with_symptoms(question_id) IN
        details' = [details EXCEPT ![d] =
            IF falsy(result)
                THEN [pc |-> "done", question_id |-> question_id,
                      outcome |-> HTTPException(HTTP_404_NOT_FOUND,
                                                "Question not found")]
            ELSE [pc |-> "loaded", question_id |-> question_id, result |-> result]]

\* GetQuestionDetailUC.action from the increment on: the view count of the
\* object read earlier is increased and the object is saved.
DetailSave(d) ==
    /\ details[d].pc = "loaded"
    /\ UNCHANGED <<now, issued, call, users, roles, regs, EXEMPT_PATHS, middlewares>>
    /\ LET result == details[d].result
           question == [result.question EXCEPT !.view_count = @ + 1]
       IN  /\ questions' = Question_save(question)
           /\ details' = [details EXCEPT ![d] =
                  [pc |-> "done", question_id |-> details[d].question_id,
                   outcome |-> Return([success |-> TRUE,
                                       data |-> [question |-> question,
                                                 symptoms |-> result.symptoms]])]]

InitQuestions ==
    /\ now = 0
    /\ issued = NoToken
    /\ call = NoCall
    /\ users = <<>>
    /\ roles = {}
    /\ regs = [r \in RegIds |-> NoReg]
    /\ EXEMPT_PATHS = DefaultExemptPaths
    /\ middlewares = <<>>
    /\ questions \in SeedQuestions
    /\ details = [d \in DetailIds |-> NoDetail]

NextQuestions ==
    \/ CreateQuestion
    \/ ListQuestions
    \/ ListPendingQuestions
    \/ \E d \in DetailIds : DetailGet(d) \/ DetailSave(d)
    \/ ReturnToCaller

SpecQuestions == InitQuestions /\ [][NextQuestions]_vars

(***************************************************************************)
(* Claims about the permission model and the authorization gate            *)
(***************************************************************************)
IsPermissionCall == call.op = "Permission.authorize"
IsGateCall == call.op = "authorize"
Forbidden == HTTPException(403, "Insufficient permissions")

\* C1: every permission variant evaluated on a context whose user is None
\* returns false and does not raise, whatever the context's resource is.
C1_NoUserDenied ==
    (IsPermissionCall /\ call.context.user = None) => call.outcome = Return(FALSE)

C1_Witness ==
    /\ IsPermissionCall
    /\ call.permission.kind = "SelfOrAdminPermission"
    /\ call.context.user = None
    /\ call.context.obj # None
    /\ hasattr(call.context.obj, "email")
    /\ call.outcome = Return(FALSE)

\* C2: the gate raises 403 "Insufficient permissions" exactly when the
\* permission's authorize is false, returns normally when it grants, uses the
\* same detail for every permission variant, and changes no state.
C2_GateOutcome ==
    IsGateCall =>
        LET granted == Permission_authorize(call.permission, call.context) IN
        /\ (call.outcome = Forbidden) <=> (granted = Return(FALSE))
        /\ (granted = Return(TRUE)) => (call.outcome = Return(None))
        /\ (call.outcome.kind = "raise") => (call.outcome = Forbidden)

C2_Gate ==
    /\ []C2_GateOutcome
    /\ [][(call'.op = "authorize" /\ call.op = "none") => UNCHANGED <<now, issued, users, roles, regs>>]_vars

C2_Witness ==
    /\ IsGateCall
    /\ call.permission.kind = "AdminPermission"
    /\ call.context.user # None
    /\ call.context.user.role = "moderator"
    /\ call.outcome = Forbidden

\* C3: for a non-None user, RolePermission(r) grants iff role = r,
\* AnyRolePermission(S) iff role is in S, AdminPermission iff role = "admin",
\* UserPermission iff role is user, admin or moderator; the resource plays no part.
C3_RoleVariants ==
    (IsPermissionCall /\ call.context.user # None) =>
        LET role == call.context.user.role
            p == call.permission
        IN  /\ p.kind = "RolePermission" => call.outcome = Return(role = p.required_role)
            /\ p.kind = "AnyRolePermission" => call.outcome = Return(role \in p.allowed_roles)
            /\ p.kind = "AdminPermission" => call.outcome = Return(role = "admin")
            /\ p.kind = "UserPermission" =>
                   call.outcome = Return(role = "user" \/ role = "admin" \/ role = "moderator")

C3_Witness ==
    /\ IsPermissionCall
    /\ call.permission.kind = "AnyRolePermission"
    /\ call.permission.allowed_roles = {}
    /\ call.context.user # None
    /\ call.context.obj # None
    /\ call.outcome = Return(FALSE)

\* C4: SelfOrAdminPermission, for a non-None user: admin grants; else an absent
\* resource grants; else only the first field present among user_id, email,
\* owner_id is compared (ids as strings, email as is); no field present denies.
\* A non-matching user_id next to a matching email is denied.
C4_SelfOrAdminOrder ==
    (/\ IsPermissionCall
     /\ call.permission.kind = "SelfOrAdminPermission"
     /\ call.context.user # None) =>
        LET u == call.context.user
            r == call.context.obj
            v == call.outcome
            has(f) == r # None /\ f \in DOMAIN r
        IN  /\ v.kind = "return"
            /\ u.role = "admin" => v.value
            /\ (u.role # "admin" /\ r = None) => v.value
            /\ (u.role # "admin" /\ has("user_id")) =>
                   (v.value <=> Str(r.user_id) = Str(u.id))
            /\ (u.role # "admin" /\ ~has("user_id") /\ has("email")) =>
                   (v.value <=> r.email = u.email)
            /\ (u.role # "admin" /\ ~has("user_id") /\ ~has("email") /\ has("owner_id")) =>
                   (v.value <=> Str(r.owner_id) = Str(u.id))
            /\ (u.role # "admin" /\ r # None /\ DOMAIN r \cap OwnerFields = {}) => ~v.value

C4_Witness ==
    /\ IsPermissionCall
    /\ call.permission.kind = "SelfOrAdminPermission"
    /\ call.context.user # None
    /\ call.context.user.role = "user"
    /\ call.context.obj # None
    /\ hasattr(call.context.obj, "user_id")
    /\ hasattr(call.context.obj, "email")
    /\ Str(call.context.obj.user_id) # Str(call.context.user.id)
    /\ call.context.obj.email = call.context.user.email
    /\ call.outcome = Return(FALSE)

\* C5 as stated: a user whose role is none of user, admin, moderator is denied
\* by every permission variant.
C5_UnknownRoleDeniedEverywhere ==
    (/\ IsPermissionCall
     /\ call.context.user # None
     /\ call.context.user.role \notin KnownRoles) => call.outcome = Return(FALSE)

\* C5 amended: for a user whose role is none of user, admin, moderator,
\* AdminPermission, UserPermission and CanEditRole deny; RolePermission(r) and
\* AnyRolePermission(S) deny when r, respectively every member of S, is a known
\* role and grant when the unknown role itself is required or allowed;
\* SelfOrAdminPermission treats the user as any non-admin: it grants when the
\* resource is absent or owned and denies otherwise.
C5_UnknownRole ==
    (/\ IsPermissionCall
     /\ call.context.user # None
     /\ call.context.user.role \notin KnownRoles) =>
        LET u == call.context.user
            r == call.context.obj
            p == call.permission
            granted == call.outcome = Return(TRUE)
            owned == IF hasattr(r, "user_id") THEN Str(r.user_id) = Str(u.id)
                     ELSE IF hasattr(r, "email") THEN r.email = u.email
                     ELSE IF hasattr(r, "owner_id") THEN Str(r.owner_id) = Str(u.id)
                     ELSE FALSE
        IN  /\ call.outcome \in {Return(TRUE), Return(FALSE)}
            /\ p.kind \in {"AdminPermission", "UserPermission", "CanEditRole"} => ~granted
            /\ p.kind = "RolePermission" =>
                   /\ p.required_role \in KnownRoles => ~granted
                   /\ p.required_role = u.role => granted
            /\ p.kind = "AnyRolePermission" =>
                   /\ p.allowed_roles \subseteq KnownRoles => ~granted
                   /\ u.role \in p.allowed_roles => granted
            /\ p.kind = "SelfOrAdminPermission" =>
                   /\ r = None => granted
                   /\ r # None => (granted <=> owned)

C5_Witness ==
    /\ IsPermissionCall
    /\ call.permission.kind = "RolePermission"
    /\ call.context.user # None
    /\ call.context.user.role = "guest"
    /\ call.permission.required_role = "guest"
    /\ call.outcome = Return(TRUE)

(***************************************************************************)
(* Claims about the token codec and the session provider                   *)
(***************************************************************************)
IssuedAccess == issued.op = "create_access_token"
IssuedReset == issued.op = "create_reset_token"
\* The call at hand was made with the very token that was issued.
DecodesIssued(op) == call.op = op /\ issued.op # "none" /\ call.token = issued.token
SessionOfIssued ==
    /\ call.op = "get_session"
    /\ issued.op # "none"
    /\ call.request = RequestWith(BearerHeader(issued.token))

\* C6: a token from create_reset_token is rejected by decode_access_token and
\* by get_session (as Bearer token), before and after its expiry.
C6_ResetTokenRejectedAsAccess ==
    (IssuedReset /\ (DecodesIssued("decode_access_token") \/ SessionOfIssued))
        => call.outcome.kind = "raise"

\* C7: decode_reset_token returns the email of an unexpired reset token; a
\* validly signed, unexpired token whose type is missing or not "reset" gives
\* 400 "Invalid token type"; an expired one 400 "Reset token has expired"; a
\* badly signed or malformed one 400 "Invalid reset token".
C7_DecodeResetToken ==
    call.op = "decode_reset_token" =>
        LET mine == issued.op # "none" /\ call.token = issued.token
            ttl == IF IssuedReset THEN RESET_TOKEN_EXPIRE_MINUTES
                   ELSE ACCESS_TOKEN_EXPIRE_MINUTES
            unexpired == call.at < issued.at + ttl
        IN  /\ (mine /\ IssuedReset /\ unexpired) =>
                   call.outcome = Return(StrV(issued.arg))
            /\ (mine /\ IssuedAccess /\ unexpired
                     /\ dict_get(issued.arg, "type") # StrV("reset")) =>
                   call.outcome = HTTPException(400, "Invalid token type")
            /\ (mine /\ ~unexpired) =>
                   call.outcome = HTTPException(400, "Reset token has expired")
            /\ ~mine => call.outcome = HTTPException(400, "Invalid reset token")

C7_Witness ==
    /\ DecodesIssued("decode_reset_token")
    /\ IssuedAccess
    /\ dict_get(issued.arg, "type") = StrV("access")
    /\ dict_get(issued.arg, "email") # None
    /\ call.at > issued.at
    /\ call.outcome = HTTPException(400, "Invalid token type")

C9_ExpiryBoundary ==
    call.op = "decode_access_token" =>
        /\ (IssuedAccess /\ call.token = issued.token) =>
               IF call.at < issued.at + ACCESS_TOKEN_EXPIRE_MINUTES
               THEN call.outcome.kind = "return"
               ELSE call.outcome = HTTPException(401, "Token has expired")
        /\ (call.token.t # "jwt" \/ call.token.key # SECRET_KEY) =>
               call.outcome = HTTPException(401, "Invalid token")

C9_Witness ==
    /\ IssuedAccess
    /\ DecodesIssued("decode_access_token")
    /\ call.at = issued.at + ACCESS_TOKEN_EXPIRE_MINUTES
    /\ call.outcome = HTTPException(401, "Token has expired")

\* C10: the reset TTL is strictly smaller than the access TTL: a reset token
\* expires before an access token issued at the same instant, and is never
\* accepted at a time when that access token would already have expired.
C10_ResetExpiresFirst ==
    /\ RESET_TOKEN_EXPIRE_MINUTES < ACCESS_TOKEN_EXPIRE_MINUTES
    /\ (IssuedReset /\ now = issued.at) =>
           issued.token.payload["exp"].n
               < create_access_token(<<>>).token.payload["exp"].n
    /\ (IssuedReset /\ DecodesIssued("decode_reset_token")
                    /\ call.outcome.kind = "return") =>
           call.at < issued.at + ACCESS_TOKEN_EXPIRE_MINUTES

C10_Witness ==
    /\ IssuedReset
    /\ DecodesIssued("decode_reset_token")
    /\ call.at = issued.at + RESET_TOKEN_EXPIRE_MINUTES - 1
    /\ call.outcome = Return(StrV(issued.arg))

(***************************************************************************)
(* Claims about the header forms the session provider accepts              *)
(***************************************************************************)
DecodeFailureDetails == {"Token has expired", "Invalid token"}

\* C11: get_session accepts exactly "<scheme> <token>" with the scheme equal
\* to "bearer" whatever its case, one space and one token segment. An absent
\* header gives 401 "Authorization header missing"; a wrong scheme or a
\* number of segments other than 2 gives a 401 that is not a decode failure
\* (the token is not decoded); otherwise the outcome is that of decoding the
\* token.
C11_ExactBearerForm ==
    call.op = "get_session" =>
        LET authorization == dict_get(call.request.headers, "Authorization") IN
        IF authorization = None \/ authorization.atoms = <<>>
            THEN call.outcome =
                     HTTPException(HTTP_401_UNAUTHORIZED, "Authorization header missing")
        ELSE LET parts == split(authorization.atoms) IN
             IF Len(parts) # 2 \/ lower(parts[1]) # <<Lit("bearer")>>
                 THEN /\ call.outcome.kind = "raise"
                      /\ call.outcome.status_code = HTTP_401_UNAUTHORIZED
                      /\ call.outcome.detail \notin DecodeFailureDetails
             ELSE call.outcome = decode_access_token(AsToken(parts[2]))

(***************************************************************************)
(* Claims about the current-user service                                   *)
(***************************************************************************)
IsCurrentUserCall == call.op = "get_current_user"
HeaderOf(request) == dict_get(request.headers, "Authorization")
HeaderAbsent(request) ==
    HeaderOf(request) = None \/ HeaderOf(request).atoms = <<>>
BearerParts(request) == split_whitespace(HeaderOf(request).atoms)
\* Two whitespace-separated parts, the first being the scheme in any case.
TwoPartBearer(request) ==
    /\ Len(BearerParts(request)) = 2
    /\ BearerParts(request)[1] \in
           {<<Lit("Bearer")>>, <<Lit("bearer")>>, <<Lit("BEARER")>>}
TokenOf(request) == AsToken(BearerParts(request)[2])
Decoded(request) == jwt_decode(TokenOf(request), JWT_SECRET, {JWT_ALGORITHM})
UserDataOf(request) == dict_get(Decoded(request).payload, "user_data")
EmailClaimOf(request) ==
    IF UserDataOf(request) = None THEN None
    ELSE dict_get(UserDataOf(request), "email")
StoredWith(email) == {i \in DOMAIN users : users[i].email = email}
FailsWith(message, queries) ==
    /\ call.outcome = UnauthorizedException(message)
    /\ call.queries = queries

\* C12 as stated: the checks run in the order header absent, header not two
\* parts with scheme bearer, token invalid or expired, email claim absent, no
\* user with that email, each with its own message; otherwise the user found
\* by that email is returned; the store is asked at most once, after the
\* header and token checks.
C12_FirstViolatedCondition ==
    IsCurrentUserCall =>
        LET request == call.request IN
        IF HeaderAbsent(request)
            THEN FailsWith("Authorization header is required", <<>>)
        ELSE IF ~TwoPartBearer(request)
            THEN FailsWith("Invalid Authorization header format. Expected: Bearer <token>",
                           <<>>)
        ELSE IF Decoded(request).exc # "none"
            THEN FailsWith("Invalid or expired token", <<>>)
        ELSE IF EmailClaimOf(request) = None
            THEN FailsWith("Invalid token: missing user email", <<>>)
        ELSE IF StoredWith(EmailClaimOf(request)) = {}
            THEN FailsWith("User not found", <<EmailClaimOf(request)>>)
        ELSE \E i \in StoredWith(EmailClaimOf(request)) :
                 /\ call.outcome = Return(users[i])
                 /\ call.queries = <<EmailClaimOf(request)>>

\* C12, amended: as above, except that a token that decodes but carries no
\* user_data, or an empty one, fails as "Invalid or expired token", and an
\* email claim that is the empty string fails as "Invalid token: missing user
\* email"; the user returned is the first stored one with that email.
C12_CheckOrderOutcome ==
    IsCurrentUserCall =>
        LET request == call.request IN
        IF HeaderAbsent(request)
            THEN FailsWith("Authorization header is required", <<>>)
        ELSE IF ~TwoPartBearer(request)
            THEN FailsWith("Invalid Authorization header format. Expected: Bearer <token>",
                           <<>>)
        ELSE IF \/ Decoded(request).exc # "none"
                \/ UserDataOf(request) = None
                \/ DOMAIN UserDataOf(request) = {}
            THEN FailsWith("Invalid or expired token", <<>>)
        ELSE IF EmailClaimOf(request) \in {None, StrV("")}
            THEN FailsWith("Invalid token: missing user email", <<>>)
        ELSE IF StoredWith(EmailClaimOf(request)) = {}
            THEN FailsWith("User not found", <<EmailClaimOf(request)>>)
        ELSE \E i \in StoredWith(EmailClaimOf(request)) :
                 /\ \A j \in StoredWith(EmailClaimOf(request)) : i <= j
                 /\ call.outcome = Return(users[i])
                 /\ call.queries = <<EmailClaimOf(request)>>

C12_CheckOrder ==
    /\ []C12_CheckOrderOutcome
    /\ [][(call'.op = "get_current_user" /\ call.op = "none")
              => UNCHANGED <<users, roles, issued, now>>]_vars

C12_Witness ==
    /\ IsCurrentUserCall
    /\ issued.op = "generate_token"
    /\ call.request = RequestWith(HeaderStr(<<Lit("Bearer"), Sp, Sp, Tok(issued.token)>>))
    /\ Len(users) = 2
    /\ call.queries = <<StrV("b@x.org")>>
    /\ call.outcome = Return(users[2])

\* C13: get_current_user returns a user only if that user is active: for a
\* token whose email names a stored user with is_active false, the call fails.
C13_InactiveUserRejected ==
    (IsCurrentUserCall /\ call.outcome.kind = "return") => call.outcome.value.is_active

(***************************************************************************)
(* Claims about login                                                      *)
(***************************************************************************)
IsLoginCall == call.op = "LoginUC.action"
\* The email a login request names, under either request schema.
LoginEmail(data) == IF "username" \in DOMAIN data THEN data.username ELSE data.email
InvalidCredentials == HTTPException(401, "Invalid credentials")

\* C14: a login whose email has no user and a login whose email has a user
\* but whose password is not that user's both fail with 401 "Invalid
\* credentials" and return no token: the caller sees one and the same outcome.
C14_LoginAntiEnumeration ==
    IsLoginCall =>
        LET known == StoredWith(LoginEmail(call.data))
            wrong == \E i \in known : users[i].password.of # call.data.password
        IN  (known = {} \/ wrong) => call.outcome = InvalidCredentials

C14_Witness ==
    /\ IsLoginCall
    /\ call.db_ok
    /\ "username" \in DOMAIN call.data
    /\ StoredWith(call.data.username) # {}
    /\ call.data.password = "Secret1!"
    /\ users[1].email = call.data.username
    /\ users[1].password = hash_password("Passw0rd!")
    /\ call.outcome = InvalidCredentials

\* C15: a successful login returns token_type "bearer" and a token whose
\* claims contain the email of the user who logged in; presenting that token
\* as "Bearer <token>" to get_current_user before its expiry, while the user is
\* stored, returns that user.
C15_LoginTokenAuthenticates ==
    /\ (IsLoginCall /\ call.outcome.kind = "return") =>
           /\ call.outcome.value.token_type = "bearer"
           /\ dict_get(call.outcome.value.access_token.payload, "email")
                  = LoginEmail(call.data)
    /\ (/\ IsCurrentUserCall
        /\ issued.op = "LoginUC.action"
        /\ call.request = RequestWith(BearerHeader(issued.token))
        /\ now < issued.token.payload.exp.n
        /\ StoredWith(LoginEmail(issued.arg)) # {}) =>
           /\ call.outcome.kind = "return"
           /\ call.outcome.value.email = LoginEmail(issued.arg)

(***************************************************************************)
(* Claims about registration                                               *)
(***************************************************************************)
Conflict == HTTPException(409, "User with this email already exists")
Arrives(r) == regs[r].pc = "idle" /\ regs'[r].pc # "idle"

C17_EmailUnique ==
    \A i, j \in DOMAIN users : users[i].email = users[j].email => i = j

\* C18: every user created by a register request has the role "user",
\* whatever role the request names.
C18_DefaultRoleOnly ==
    \A r \in RegIds :
        (regs[r].pc \in {"respond", "done"} /\ regs[r].saved_user # None) =>
            regs[r].saved_user.role = StrV("user")

\* C19: a register request that has persisted its user returns a response
\* with success, message, user summary, access_token and token_type "bearer".
C19_RegisterResponseShape ==
    \A r \in RegIds :
        (regs[r].pc = "done" /\ regs[r].saved_user # None) =>
            /\ regs[r].outcome.kind = "return"
            /\ DOMAIN regs[r].outcome.value =
                   {"success", "message", "user", "access_token", "token_type"}
            /\ regs[r].outcome.value.token_type = StrV("bearer")

(***************************************************************************)
(* Claims about forgot-password                                            *)
(***************************************************************************)
IsForgotCall == call.op = "ForgotPasswordUC.action"

\* C20: whenever the existence check completes, forgot-password returns
\* {success: true, message: "If the email exists, a password reset link has
\* been sent"}, for a stored email and for an unknown one alike.
C20_ForgotAntiEnumeration ==
    (IsForgotCall /\ call.db_ok) =>
        call.outcome =
            Return([success |-> TRUE,
                    message |-> "If the email exists, a password reset link has been sent"])

C20_Witness ==
    /\ IsForgotCall
    /\ call.db_ok
    /\ Len(users) = 1
    /\ StoredWith(call.data.email) # {}
    /\ issued.op = "create_reset_token"
    /\ issued.at = now
    /\ issued.arg = call.data.email.s
    /\ call.outcome.kind = "return"
    /\ call.outcome.value.success

(***************************************************************************)
(* Claims about the forgot-password service, reset-password and logout     *)
(***************************************************************************)
IsSendCall == call # NoCall /\ call.op = "send_forgot_password_notification"

IsResetCall == call # NoCall /\ call.op = "ResetPasswordUC.action"

\* The failures the reset-password use case is described to have.
ResetFailures ==
    {HTTPException(HTTP_400_BAD_REQUEST, "Invalid reset token"),
     HTTPException(HTTP_400_BAD_REQUEST, "Reset token has expired"),
     HTTPException(HTTP_400_BAD_REQUEST, "Invalid token type"),
     HTTPException(HTTP_404_NOT_FOUND, "User not found"),
     HTTPException(HTTP_500_INTERNAL_SERVER_ERROR, "Failed to reset password")}

\* The collection `before` with the password of the users of `email` set.
WithPassword(before, email, hashed_password) ==
    [i \in DOMAIN before |->
        IF before[i].email = email
            THEN [before[i] EXCEPT !.password = hashed_password]
        ELSE before[i]]

\* C22: a reset-password call either fails with 400 (invalid, expired or
\* wrong-type token, or no email in it), 404 "User not found" or 500 "Failed
\* to reset password" and leaves the users collection as it was, or it
\* succeeds and changes only the password of the user whose email is in the
\* token, to the hash of new_password.
C22_ResetAllOrNothing ==
    IsResetCall =>
        \/ /\ call.outcome \in ResetFailures
           /\ users = call.before
        \/ /\ call.outcome.kind = "return"
           /\ decode_reset_token(call.data.token).kind = "return"
           /\ users = WithPassword(call.before,
                                   decode_reset_token(call.data.token).value,
                                   hash_password(call.data.new_password))

ExceptionTexts == {"ServerSelectionTimeoutError", "DuplicateKeyError"}
CarriesExceptionText(message) ==
    \E text \in ExceptionTexts :
        message \in {"Error checking user existence: " \o text,
                     "Error finding user: " \o text,
                     "Error saving user: " \o text}

\* A call during which the user repository raised.
RepositoryRaised ==
    /\ call # NoCall
    /\ \/ call.op = "ForgotPasswordUC.action" /\ ~call.db_ok
       \/ /\ call.op = "ResetPasswordUC.action" /\ ~call.db_ok
          /\ decode_reset_token(call.data.token).kind = "return"

\* C24: raw exception text never reaches the caller: when the user
\* repository raises during forgot-password or reset-password, the response
\* is HTTP 500 with a message that does not carry the exception's text.
C24_NoRawExceptionText ==
    RepositoryRaised =>
        /\ Received(call.outcome).status_code = HTTP_500_INTERNAL_SERVER_ERROR
        /\ ~CarriesExceptionText(Received(call.outcome).content.message)

\* C26: a credential-store failure during login is reported as Internal:
\* when the user lookup of LoginUC.action raises because the database is
\* down, the caller receives HTTP 500 and not 401 "Invalid credentials".
C26_LoginStoreFailureIsInternal ==
    (IsLoginCall /\ hasattr(call.data, "username") /\ ~call.db_ok) =>
        /\ Received(call.outcome).status_code = HTTP_500_INTERNAL_SERVER_ERROR
        /\ call.outcome # InvalidCredentials

IsLogoutCall == call # NoCall /\ call.op = "LogoutUC.action"

\* The outcome of a logout is that of get_current_user for the same request,
\* and the request that logged out is still one get_current_user accepts.
C23_LogoutOutcome ==
    IsLogoutCall =>
        LET current == get_current_user(call.request).outcome IN
        IF current.kind = "return"
            THEN /\ call.outcome =
                        Return(LogoutResponse(TRUE, "Logged out successfully"))
                 /\ current.value \in {users[i] : i \in DOMAIN users}
        ELSE call.outcome = current

IsDispatchCall == call # NoCall /\ call.op = "AuthMiddleware.dispatch"

\* The exempt_paths the instance m was constructed with.
GivenTo(m) ==
    IF middlewares[m].exempt_paths = None THEN {}
    ELSE middlewares[m].exempt_paths.elems

\* C28: the paths exempt from authentication for one AuthMiddleware instance
\* are the built-in defaults and the exempt_paths given to that instance: a
\* GET request without an Authorization header is passed on by an instance
\* exactly when its path is one of those, whatever other instances were
\* constructed with.
C28_ExemptPathsPerInstance ==
    (/\ IsDispatchCall
     /\ call.request.method = "GET"
     /\ call.request.headers = <<>>)
    => (call.outcome = Return("call_next")
            <=> call.request.url.path \in DefaultExemptPaths \cup GivenTo(call.self))

IsCreateQuestionCall == call # NoCall /\ call.op = "CreateQuestionUC.action"
IsListQuestionsCall == call # NoCall /\ call.op = "ListQuestionsUC.action"
StatusOf(id) == questions[CHOOSE i \in DOMAIN questions : questions[i].id = id].status

\* C25: only APPROVED questions are shown publicly: a question is created
\* with status PENDING whatever the caller supplies, list_questions returns
\* only questions whose status is APPROVED, and get_question_detail returns
\* only a question whose status is APPROVED.
C25_OnlyApprovedShown ==
    /\ IsCreateQuestionCall =>
           /\ call.outcome.value.data.question.status = PENDING
           /\ questions[Len(questions)] = call.outcome.value.data.question
    /\ IsListQuestionsCall =>
           \A i \in DOMAIN call.outcome.value.data :
               StatusOf(call.outcome.value.data[i].id) = APPROVED
    /\ \A d \in DetailIds :
           (details[d].pc = "done" /\ details[d].outcome.kind = "return")
               => details[d].outcome.value.data.question.status = APPROVED

\* The detail requests for the question `id` that have read it and not yet
\* saved it, and those that have completed.
Reading(id) == {d \in DetailIds : details[d].pc = "loaded" /\ details[d].question_id = id}
Completed(id) ==
    {d \in DetailIds : /\ details[d].pc = "done"
                       /\ details[d].question_id = id
                       /\ details[d].outcome.kind = "return"}

\* C29: every question starts with view_count 0, so once the detail
\* requests for a question have completed, in any interleaving of their read
\* and save steps, its view_count is the number of those requests, and a
\* save changes no other field and no other question; a request for a
\* missing question ends with 404 and changes nothing.
C29_ViewCountExact ==
    /\ [](\A i \in DOMAIN questions :
              Reading(questions[i].id) = {}
                  => questions[i].view_count = Cardinality(Completed(questions[i].id)))
    /\ [][\A d \in DetailIds :
              (details[d].pc = "idle" /\ details'[d].pc = "done")
                  => /\ details'[d].outcome =
                            HTTPException(HTTP_404_NOT_FOUND, "Question not found")
                     /\ questions' = questions]_vars

====
